---- MODULE Spec2Model ----
(***************************************************************************)
(* A model of src/main.go: the pipeline                                    *)
(*     signal -> Sample -> EncodePCM -> os.Stdout.Write                    *)
(* with the float64 arithmetic of the sampling loop and the IEEE-754       *)
(* layout of the encoder computed bit by bit.                              *)
(*                                                                         *)
(* Wide integers (time.Duration is an int64, a float64 mantissa has 53     *)
(* bits, a frame's pattern is a uint64) are little-endian sequences of     *)
(* bits without high zeros: <<>> is 0, <<0, 1>> is 2.                      *)
(***************************************************************************)
EXTENDS Integers, Sequences, FiniteSets

\* ------------------------------------------------------------------------
\* Natural numbers as bit sequences.  Sums and quotients are computed on
\* 15-bit limbs, so that every intermediate value fits a machine integer.
\* ------------------------------------------------------------------------

Max(a, b) == IF a >= b THEN a ELSE b

MaxOf(S) == CHOOSE j \in S : \A k \in S : k <= j

MinOf(S) == CHOOSE j \in S : \A k \in S : j <= k

Zeros(n) == [j \in 1..n |-> 0]

Ones(b) == {j \in 1..Len(b) : b[j] = 1}

Trim(b) == IF Ones(b) = {} THEN <<>> ELSE SubSeq(b, 1, MaxOf(Ones(b)))

LowZeros(b) == IF Ones(b) = {} THEN 0 ELSE MinOf(Ones(b)) - 1

Bit(b, j) == IF j >= 1 /\ j <= Len(b) THEN b[j] ELSE 0

RECURSIVE BitsOf(_)
BitsOf(n) == IF n = 0 THEN <<>> ELSE <<n % 2>> \o BitsOf(n \div 2)

\* the number written by bits lo..hi of b
RECURSIVE Val(_, _, _)
Val(b, lo, hi) == IF lo > hi THEN 0 ELSE Bit(b, lo) + 2 * Val(b, lo + 1, hi)

ValueOf(b) == Val(b, 1, Len(b))

Limb == 2^15

ToLimbs(b) ==
    [k \in 1..((Len(b) + 14) \div 15) |-> Val(b, 15 * k - 14, 15 * k)]

ToBits(l) ==
    Trim([j \in 1..(15 * Len(l)) |->
            (l[(j - 1) \div 15 + 1] \div 2^((j - 1) % 15)) % 2])

LimbOf(l, k) == IF k <= Len(l) THEN l[k] ELSE 0

RECURSIVE LAdd(_, _, _, _)
LAdd(x, y, k, c) ==
    IF k > Max(Len(x), Len(y))
    THEN IF c > 0 THEN <<c>> ELSE <<>>
    ELSE <<(LimbOf(x, k) + LimbOf(y, k) + c) % Limb>>
            \o LAdd(x, y, k + 1, (LimbOf(x, k) + LimbOf(y, k) + c) \div Limb)

BAdd(a, b) == ToBits(LAdd(ToLimbs(a), ToLimbs(b), 1, 0))

BLess(a, b) ==
    IF Len(a) # Len(b) THEN Len(a) < Len(b)
    ELSE LET diff == {j \in 1..Len(a) : a[j] # b[j]}
         IN  diff # {} /\ a[MaxOf(diff)] < b[MaxOf(diff)]

BLeq(a, b) == a = b \/ BLess(a, b)

Shl(b, k) == IF b = <<>> THEN <<>> ELSE Zeros(k) \o b

Shr(b, k) == IF k >= Len(b) THEN <<>> ELSE SubSeq(b, k + 1, Len(b))

\* a * b, adding a shifted copy of a for every set bit of b
RECURSIVE MulFrom(_, _, _)
MulFrom(a, b, j) ==
    IF j > Len(b) THEN <<>>
    ELSE BAdd(IF b[j] = 1 THEN Shl(a, j - 1) ELSE <<>>, MulFrom(a, b, j + 1))

BMul(a, b) == MulFrom(a, b, 1)

\* Long division of the limbs x by a divisor d < 2^15, from the top limb
\* down: r is the running remainder, q the quotient limbs found so far.
RECURSIVE LDiv(_, _, _, _, _)
LDiv(x, d, k, r, q) ==
    IF k = 0 THEN [q |-> ToBits(q), r |-> r]
    ELSE LDiv(x, d, k - 1, (r * Limb + x[k]) % d,
              <<(r * Limb + x[k]) \div d>> \o q)

BDivSmall(a, d) == LDiv(ToLimbs(a), d, Len(ToLimbs(a)), 0, <<>>)

\* ------------------------------------------------------------------------
\* float64
\*
\* A float64 is [kind, neg, m, e]: kind "fin" is the value m * 2^e with m
\* odd (or m = <<>>, e = 0 for zero) and at most 53 bits; "inf" is an
\* infinity; "nan" keeps its 52-bit payload in m.  The exponents the
\* sampling loop meets lie far inside float64's range, so sums and
\* quotients round only to 53 bits.
\* ------------------------------------------------------------------------

Fin(m, e) ==
    IF m = <<>> THEN [kind |-> "fin", neg |-> FALSE, m |-> <<>>, e |-> 0]
    ELSE [kind |-> "fin", neg |-> FALSE,
          m |-> Shr(m, LowZeros(m)), e |-> e + LowZeros(m)]

PosInf == [kind |-> "inf", neg |-> FALSE, m |-> <<>>, e |-> 0]

Neg(x) == [x EXCEPT !.neg = ~x.neg]

\* Round m * 2^e (plus, when sticky, a positive amount below 2^e) to the
\* nearest float64, ties to even.
Round53(m, e, sticky) ==
    IF Len(m) <= 53 THEN Fin(m, e)
    ELSE LET d     == Len(m) - 53
             kept  == Shr(m, d)
             guard == m[d]
             st    == sticky \/ \E j \in 1..(d - 1) : m[j] = 1
             up    == guard = 1 /\ (st \/ kept[1] = 1)
         IN  Fin(IF up THEN BAdd(kept, <<1>>) ELSE kept, e + d)

\* float64(n) for a non-negative integer n
Float64OfInt(n) == Round53(n, 0, FALSE)

\* x + y for non-negative operands
FAdd(x, y) ==
    IF x.kind = "inf" \/ y.kind = "inf" THEN PosInf
    ELSE LET e == IF x.e <= y.e THEN x.e ELSE y.e
         IN  Round53(BAdd(Shl(x.m, x.e - e), Shl(y.m, y.e - e)), e, FALSE)

\* x < y for non-negative operands
FLess(x, y) ==
    IF x.kind = "inf" THEN FALSE
    ELSE IF y.kind = "inf" THEN TRUE
    ELSE LET e == IF x.e <= y.e THEN x.e ELSE y.e
         IN  BLess(Shl(x.m, x.e - e), Shl(y.m, y.e - e))

\* x / y for a positive finite x and a finite y >= 0 whose odd part is below
\* 2^15 (y is float64(rate)); x / 0 is +Inf.
FQuo(x, y) ==
    IF y.m = <<>> THEN PosInf
    ELSE LET d == BDivSmall(Shl(x.m, 90), ValueOf(y.m))
         IN  Round53(d.q, x.e - y.e - 90, d.r # 0)

\* time.Duration(x): truncation of a finite non-negative x
DurationOfFloat(x) ==
    IF x.e >= 0 THEN Shl(x.m, x.e) ELSE Shr(x.m, 0 - x.e)

\* math.Float64bits(x): the 64-bit pattern, bit 0 first
Pad(b, n) == b \o Zeros(n - Len(b))

Float64bits(x) ==
    LET sign == IF x.neg THEN 1 ELSE 0
        E    == x.e + Len(x.m) - 1
        body ==
            CASE x.kind = "inf" -> Zeros(52) \o Pad(BitsOf(2047), 11)
              [] x.kind = "nan" -> Pad(x.m, 52) \o Pad(BitsOf(2047), 11)
              [] x.m = <<>>     -> Zeros(63)
              [] E >= -1022     ->
                    Zeros(53 - Len(x.m)) \o SubSeq(x.m, 1, Len(x.m) - 1)
                        \o Pad(BitsOf(E + 1023), 11)
              [] OTHER          -> Pad(Shl(x.m, x.e + 1074), 52) \o Zeros(11)
    IN  body \o <<sign>>

\* byte(v >> (8 * t)) of a 64-bit pattern v
ByteOf(v, t) ==
    v[8*t + 1] + 2 * v[8*t + 2] + 4 * v[8*t + 3] + 8 * v[8*t + 4]
        + 16 * v[8*t + 5] + 32 * v[8*t + 6] + 64 * v[8*t + 7]
        + 128 * v[8*t + 8]

\* PutUint64 gone wrong: the least significant byte first
PutUint64LittleEndian(v) == [j \in 1..8 |-> ByteOf(v, j - 1)]

\* binary.BigEndian.PutUint64(buf[:], v): buf[0] = byte(v >> 56), ...,
\* buf[7] = byte(v)
PutUint64(v) == [j \in 1..8 |-> ByteOf(v, 8 - j)]

\* ------------------------------------------------------------------------
\* Signals
\* ------------------------------------------------------------------------

\* Constant(v): the signal that ignores its time input
Constant(v) == [fn |-> "Constant", v |-> v]

\* a constant signal gone wrong: silent at the origin, as an oscillator is
CallSilentAtOrigin(s, x) == IF x = <<>> THEN Fin(<<>>, 0) ELSE s.v

\* s(x): the call of a signal at the offset x
Call(s, x) == s.v

\* ------------------------------------------------------------------------
\* Bounds and inputs
\* ------------------------------------------------------------------------

Second == 1000000000

Quarter == Second \div 4

MaxRate == 10

MaxQuarters == 4

MaxFrames == 16

MaxLen == 3

MaxPairRate == 4

\* a rate whose step, 1e9 / 2^30 ns, is below one nanosecond
BigRate == 2^30

\* an offset of 2^53 ns, where neighbouring float64 values are 2 ns apart
HugeFrom == Shl(<<1>>, 53)

Zero == Fin(<<>>, 0)

One == Fin(<<1>>, 0)

MinusOne == Neg(One)

Half == Fin(<<1>>, -1)

\* math.NaN(): 0x7FF8000000000001
NaN == [kind |-> "nan", neg |-> FALSE, m |-> <<1>> \o Zeros(50) \o <<1>>,
        e |-> 0]

Amps == {Zero, One, MinusOne, Half, NaN, PosInf}

Rates == (0..MaxRate) \cup {BigRate}

Froms == {<<>>, BitsOf(2 * Quarter), BitsOf(Second), HugeFrom}

Tos == {BitsOf(q * Quarter) : q \in 0..MaxQuarters}

Runs == {1, 2}

\* ------------------------------------------------------------------------
\* State.  sig, rate, from, to are the arguments main passes to Sample;
\* every other variable is indexed by the run of the pipeline it belongs to.
\* ------------------------------------------------------------------------

VARIABLES sig, rate, from, to,
          pc,       \* where the run stands: start, loop, encode, write,
                    \* exit, done
          step,     \* Sample's step
          i,        \* Sample's time cursor
          frames,   \* Sample's result, EncodePCM's argument
          evals,    \* the offsets the signal was called at, in call order
          idx,      \* how many frames EncodePCM's range loop has taken
          buf,      \* EncodePCM's scratch buffer
          b,        \* EncodePCM's result
          written,  \* the bytes os.Stdout.Write put on standard output
          werr,     \* whether os.Stdout.Write returned an error
          status    \* the exit status of the process, -1 while it runs

vars == <<sig, rate, from, to, pc, step, i, frames, evals, idx, buf, b,
          written, werr, status>>

args == <<sig, rate, from, to>>

Fresh ==
    /\ step = [r \in Runs |-> Zero]
    /\ i = [r \in Runs |-> Zero]
    /\ evals = [r \in Runs |-> <<>>]
    /\ idx = [r \in Runs |-> 0]
    /\ buf = [r \in Runs |-> Zeros(8)]
    /\ b = [r \in Runs |-> <<>>]
    /\ written = [r \in Runs |-> <<>>]
    /\ werr = [r \in Runs |-> FALSE]
    /\ status = [r \in Runs |-> -1]

Init ==
    /\ sig \in {Constant(v) : v \in Amps}
    /\ rate \in Rates
    /\ from \in Froms
    /\ to \in Tos
    /\ pc = [r \in Runs |-> "start"]
    /\ frames = [r \in Runs |-> <<>>]
    /\ Fresh

\* ------------------------------------------------------------------------
\* Sample
\* ------------------------------------------------------------------------

\* i < float64(from+to)
InWindow(r) == FLess(i[r], Float64OfInt(BAdd(from, to)))

\* Sample gone wrong: frames is not a fresh result but what the other call
\* left behind
SampleEnterKeepsFrames(r) ==
    /\ pc[r] = "start"
    /\ step' = [step EXCEPT ![r] =
                   FQuo(Float64OfInt(BitsOf(Second)), Float64OfInt(BitsOf(rate)))]
    /\ i' = [i EXCEPT ![r] = Float64OfInt(from)]
    /\ frames' = [frames EXCEPT ![r] = frames[3 - r]]
    /\ pc' = [pc EXCEPT ![r] = "loop"]
    /\ UNCHANGED <<args, evals, idx, buf, b, written, werr, status>>

\* step := float64(time.Second) / float64(rate); i := float64(from)
SampleEnter(r) ==
    /\ pc[r] = "start"
    /\ step' = [step EXCEPT ![r] =
                   FQuo(Float64OfInt(BitsOf(Second)), Float64OfInt(BitsOf(rate)))]
    /\ i' = [i EXCEPT ![r] = Float64OfInt(from)]
    /\ frames' = [frames EXCEPT ![r] = <<>>]
    /\ pc' = [pc EXCEPT ![r] = "loop"]
    /\ UNCHANGED <<args, evals, idx, buf, b, written, werr, status>>

\* one iteration: val := s(time.Duration(i)); frames = append(frames, val);
\* i += step
SampleStep(r) ==
    /\ pc[r] = "loop"
    /\ InWindow(r)
    /\ Len(frames[r]) < MaxFrames
    /\ evals' = [evals EXCEPT ![r] = Append(@, DurationOfFloat(i[r]))]
    /\ frames' = [frames EXCEPT ![r] =
                     Append(@, Call(sig, DurationOfFloat(i[r])))]
    /\ i' = [i EXCEPT ![r] = FAdd(i[r], step[r])]
    /\ UNCHANGED <<args, pc, step, idx, buf, b, written, werr, status>>

\* the loop condition fails: return frames, and main calls EncodePCM
SampleReturn(r) ==
    /\ pc[r] = "loop"
    /\ ~InWindow(r)
    /\ pc' = [pc EXCEPT ![r] = "encode"]
    /\ idx' = [idx EXCEPT ![r] = 0]
    /\ buf' = [buf EXCEPT ![r] = Zeros(8)]
    /\ b' = [b EXCEPT ![r] = <<>>]
    /\ UNCHANGED <<args, step, i, frames, evals, written, werr, status>>

\* ------------------------------------------------------------------------
\* EncodePCM
\* ------------------------------------------------------------------------

\* EncodePCM gone wrong: b holds the scratch buffer itself, not copies of
\* it, so every group already appended shows the latest frame
EncodeStepAliased(r) ==
    /\ pc[r] = "encode"
    /\ idx[r] < Len(frames[r])
    /\ buf' = [buf EXCEPT ![r] = PutUint64(Float64bits(frames[r][idx[r] + 1]))]
    /\ b' = [b EXCEPT ![r] =
                [j \in 1..(8 * (idx[r] + 1)) |-> buf'[r][((j - 1) % 8) + 1]]]
    /\ idx' = [idx EXCEPT ![r] = @ + 1]
    /\ UNCHANGED <<args, pc, step, i, frames, evals, written, werr, status>>

\* one iteration: PutUint64(buf[:], Float64bits(pulse)); b = append(b, buf[:]...)
EncodeStep(r) ==
    /\ pc[r] = "encode"
    /\ idx[r] < Len(frames[r])
    /\ buf' = [buf EXCEPT ![r] = PutUint64(Float64bits(frames[r][idx[r] + 1]))]
    /\ b' = [b EXCEPT ![r] = @ \o buf'[r]]
    /\ idx' = [idx EXCEPT ![r] = @ + 1]
    /\ UNCHANGED <<args, pc, step, i, frames, evals, written, werr, status>>

\* the range is exhausted: return b, and main calls os.Stdout.Write
EncodeReturn(r) ==
    /\ pc[r] = "encode"
    /\ idx[r] = Len(frames[r])
    /\ pc' = [pc EXCEPT ![r] = "write"]
    /\ UNCHANGED <<args, step, i, frames, evals, idx, buf, b, written, werr,
                   status>>

\* ------------------------------------------------------------------------
\* main
\* ------------------------------------------------------------------------

\* os.Stdout.Write(b) writes n bytes and returns (n, err), err non-nil
\* whenever n < len(b); main drops both results
Write(r) ==
    /\ pc[r] = "write"
    /\ \E n \in 0..Len(b[r]), err \in BOOLEAN :
          /\ n < Len(b[r]) => err
          /\ written' = [written EXCEPT ![r] = SubSeq(b[r], 1, n)]
          /\ werr' = [werr EXCEPT ![r] = err]
    /\ pc' = [pc EXCEPT ![r] = "exit"]
    /\ UNCHANGED <<args, step, i, frames, evals, idx, buf, b, status>>

\* main returns: the process exits with status 0
Exit(r) ==
    /\ pc[r] = "exit"
    /\ status' = [status EXCEPT ![r] = 0]
    /\ pc' = [pc EXCEPT ![r] = "done"]
    /\ UNCHANGED <<args, step, i, frames, evals, idx, buf, b, written, werr>>

\* one run of main
Next ==
    \/ SampleEnter(1)
    \/ SampleStep(1)
    \/ SampleReturn(1)
    \/ EncodeStep(1)
    \/ EncodeReturn(1)
    \/ Write(1)
    \/ Exit(1)

Spec == Init /\ [][Next]_vars

\* EncodePCM alone, on every frame sequence of at most MaxLen amplitudes
RECURSIVE SeqsUpTo(_, _)
SeqsUpTo(S, n) ==
    IF n = 0 THEN {<<>>}
    ELSE SeqsUpTo(S, n - 1)
            \cup {Append(q, v) : q \in SeqsUpTo(S, n - 1), v \in S}

InitEncode ==
    /\ sig = Constant(Zero)
    /\ rate = 1
    /\ from = <<>>
    /\ to = <<>>
    /\ pc = [r \in Runs |-> IF r = 1 THEN "encode" ELSE "start"]
    /\ \E F \in SeqsUpTo(Amps, MaxLen) :
          frames = [r \in Runs |-> IF r = 1 THEN F ELSE <<>>]
    /\ Fresh

NextEncode == EncodeStep(1) \/ EncodeReturn(1)

SpecEncode == InitEncode /\ [][NextEncode]_vars

\* Sample and EncodePCM called twice with the same arguments, the two calls
\* stepped in any order
InitPair ==
    /\ sig \in {Constant(Half), Constant(NaN)}
    /\ rate \in 0..MaxPairRate
    /\ from \in {<<>>, BitsOf(2 * Quarter)}
    /\ to \in Tos
    /\ pc = [r \in Runs |-> "start"]
    /\ frames = [r \in Runs |-> <<>>]
    /\ Fresh

NextPair ==
    \E r \in Runs :
        \/ SampleEnter(r)
        \/ SampleStep(r)
        \/ SampleReturn(r)
        \/ EncodeStep(r)
        \/ EncodeReturn(r)

SpecPair == InitPair /\ [][NextPair]_vars

\* ------------------------------------------------------------------------
\* Claims about Sample and main
\* ------------------------------------------------------------------------

\* Sample has returned in run r
Returned(r) == pc[r] \in {"encode", "write", "exit", "done"}

\* from + to as an offset
WindowEnd == BAdd(from, to)

\* n = floor(duration * rate), the duration in seconds
IsFloorCount(n) ==
    /\ BLeq(BMul(BitsOf(Second), BitsOf(n)), BMul(to, BitsOf(rate)))
    /\ BLess(BMul(to, BitsOf(rate)), BMul(BitsOf(Second), BitsOf(n + 1)))

\* x = from + floor(k * step), step = 1 second / rate
IsOffset(x, k) ==
    LET lhs == BAdd(BMul(from, BitsOf(rate)), BMul(BitsOf(Second), BitsOf(k)))
    IN  /\ BLeq(BMul(x, BitsOf(rate)), lhs)
        /\ BLess(lhs, BMul(BAdd(x, <<1>>), BitsOf(rate)))

\* duration * rate is the whole number n
IsWholeCount(n) == BMul(to, BitsOf(rate)) = BMul(BitsOf(Second), BitsOf(n))

\* C1: for every rate > 0, Sample returns exactly floor(duration * rate)
\* frames, whatever the signal and from.
C1_FrameCountIsFloor ==
    (rate > 0 /\ Returned(1)) => IsFloorCount(Len(frames[1]))

\* C1 where duration * rate is a whole number n, so that no rounding of
\* the count is in question: Sample returns exactly n frames.
C1_WholeFrameCount ==
    \A n \in 0..MaxFrames :
        (rate > 0 /\ Returned(1) /\ IsWholeCount(n)) => Len(frames[1]) = n

\* C2: with rate <= 0 Sample rejects the call: the signal is never called
\* and no frame sequence, empty or not, is ever returned.
C2_NonPositiveRateRejected ==
    rate <= 0 => (evals[1] = <<>> /\ ~Returned(1))

\* C5: for rate > 0 the k-th frame (k = 0, 1, ...) is the signal at offset
\* from + k * step; every offset called lies in [from, from + duration), and
\* the offsets strictly increase.
C5_OffsetsAreExactMultiples ==
    rate > 0 =>
        \A k \in 1..Len(evals[1]) :
            /\ IsOffset(evals[1][k], k - 1)
            /\ BLeq(from, evals[1][k])
            /\ BLess(evals[1][k], WindowEnd)
            /\ k > 1 => BLess(evals[1][k - 1], evals[1][k])

\* C6: `to` is the absolute offset where measuring stops: the signal is
\* never called at an offset >= to.
C6_ToIsAbsoluteEnd ==
    rate > 0 => \A k \in 1..Len(evals[1]) : BLess(evals[1][k], to)

\* C7: a failed or short write of the encoded buffer ends the run in
\* failure: the process never exits with status 0 after it.
C7_WriteFailureFailsRun ==
    (rate > 0 /\ pc[1] = "done" /\ (werr[1] \/ Len(written[1]) < Len(b[1])))
        => status[1] # 0

\* C10: for rate > 0 the time cursor strictly increases on every iteration
\* of the sampling loop, so the loop ends after finitely many iterations;
\* with duration = 0 Sample returns the empty sequence without calling the
\* signal.
C10_CursorAdvances ==
    /\ []((rate > 0 /\ to = <<>>) => evals[1] = <<>>)
    /\ [][(rate > 0 /\ SampleStep(1)) => FLess(i[1], i'[1])]_vars

\* ------------------------------------------------------------------------
\* Claims about EncodePCM
\* ------------------------------------------------------------------------

\* the eight bytes of IEEE-754's pattern of v, most significant first
KnownBytes(v) ==
    CASE v = Zero     -> <<0, 0, 0, 0, 0, 0, 0, 0>>
      [] v = One      -> <<63, 240, 0, 0, 0, 0, 0, 0>>
      [] v = MinusOne -> <<191, 240, 0, 0, 0, 0, 0, 0>>
      [] v = Half     -> <<63, 224, 0, 0, 0, 0, 0, 0>>
      [] v = NaN      -> <<127, 248, 0, 0, 0, 0, 0, 1>>
      [] v = PosInf   -> <<127, 240, 0, 0, 0, 0, 0, 0>>

\* the k-th group of eight bytes of a buffer
Group(bytes, k) == SubSeq(bytes, 8 * k - 7, 8 * k)

\* binary.BigEndian.Uint64(g): bit t of the pattern is bit t % 8 of the
\* byte 7 - t \div 8 places from the end
Uint64(g) == [t \in 1..64 |-> (g[8 - ((t - 1) \div 8)] \div 2^((t - 1) % 8)) % 2]

\* the decoder: consecutive groups of eight bytes read back as patterns
DecodePCM(bytes) == [k \in 1..(Len(bytes) \div 8) |-> Uint64(Group(bytes, k))]

\* C3: after EncodePCM has taken n frames its buffer has exactly 8 * n
\* bytes, and for every frame taken the k-th group of eight bytes is the
\* frame's 64-bit pattern, most significant byte first (NaN and infinity
\* included); appending a later frame leaves the earlier groups as they are.
C3_EncodedLayout ==
    /\ Len(b[1]) = 8 * idx[1]
    /\ pc[1] = "write" => idx[1] = Len(frames[1])
    /\ \A k \in 1..idx[1] :
          /\ Group(b[1], k) = KnownBytes(frames[1][k])
          /\ \A t \in 0..63 :
                (b[1][8 * k - (t \div 8)] \div 2^(t % 8)) % 2
                    = Float64bits(frames[1][k])[t + 1]

C3_Witness ==
    /\ pc[1] = "write"
    /\ frames[1] = <<Zero, One, MinusOne>>
    /\ b[1] = <<0, 0, 0, 0, 0, 0, 0, 0, 63, 240, 0, 0, 0, 0, 0, 0,
                191, 240, 0, 0, 0, 0, 0, 0>>

\* C4: reading the buffer EncodePCM returned back in groups of eight
\* big-endian bytes gives the frames' patterns again: the same number, the
\* same pattern at every index.
C4_RoundTrip ==
    pc[1] = "write" =>
        /\ Len(b[1]) % 8 = 0
        /\ DecodePCM(b[1])
              = [k \in 1..Len(frames[1]) |-> Float64bits(frames[1][k])]

C4_Witness ==
    /\ pc[1] = "write"
    /\ frames[1] = <<NaN, Half, PosInf>>
    /\ Len(DecodePCM(b[1])) = 3
    /\ DecodePCM(b[1])[1] = Float64bits(NaN)
    /\ DecodePCM(b[1])[1] # DecodePCM(b[1])[2]

\* C9: every frame Sample takes from Constant(v) at a rate > 0 is v, and
\* the encoded buffer is v's eight bytes once per frame; for
\* Sample(Constant(0.5), 10, 0, 1 second) that is 10 frames and 80 bytes.
C9_ConstantEndToEnd ==
    rate > 0 =>
        /\ \A k \in 1..Len(frames[1]) : frames[1][k] = sig.v
        /\ pc[1] \in {"write", "exit", "done"} =>
              /\ Len(b[1]) = 8 * Len(frames[1])
              /\ \A j \in 1..Len(b[1]) :
                    b[1][j] = KnownBytes(sig.v)[((j - 1) % 8) + 1]
        /\ (/\ Returned(1)
            /\ sig = Constant(Half)
            /\ rate = 10
            /\ from = <<>>
            /\ to = BitsOf(Second)) => Len(frames[1]) = 10

C9_Witness ==
    /\ pc[1] = "done"
    /\ sig = Constant(Half)
    /\ rate = 10
    /\ from = <<>>
    /\ to = BitsOf(Second)
    /\ Len(frames[1]) = 10
    /\ Len(b[1]) = 80
    /\ Group(b[1], 10) = <<63, 224, 0, 0, 0, 0, 0, 0>>

====
